---- MODULE Spec2Model ----
(***************************************************************************)
(* A model of guessr (src/app.py): the share-text parsers, the parser      *)
(* dispatcher, the date extractor, the score normalizer, and the           *)
(* /api/parse and /api/delete handlers over the scores table.              *)
(*                                                                         *)
(* A share text is a sequence of lexical tokens.  A token stands for the   *)
(* string written beside its constructor below.  Two neighbouring tokens   *)
(* are separated by one space, except that the line-break tokens NL ("\n") *)
(* and BL ("\n\n") stand for themselves with no space on either side.      *)
(* Every regular expression of the source is translated to what it does    *)
(* on such texts.                                                          *)
(***************************************************************************)
EXTENDS Integers, Sequences, FiniteSets, TLC

VARIABLES
    text,      \* parse machine: the text handed to the dispatcher
    pidx,      \* parse machine: index into PARSERS of the next parser to run
    results,   \* parse machine: the dispatcher's result list
    outcomes,  \* parse machine: what each parser call did (match, none, fault)
    game,      \* normalizer machine: the game argument
    score,     \* normalizer machine: the raw score argument
    norm,      \* normalizer machine: the returned value, num/den
    db,        \* store: committed rows of the scores table
    work,      \* store: the rows as seen by the open write transaction
    writer,    \* store: the thread holding the database write lock, 0 if none
    pc,        \* store: each request thread's position
    req,       \* store: the /api/parse request a thread is serving (username, text)
    loc,       \* store: each thread's locals (username, game, play_date, results, ...)
    resp       \* store: the response a thread has just produced

parseVars == <<text, pidx, results, outcomes>>
normVars  == <<game, score, norm>>
storeVars == <<db, work, writer, pc, req, loc, resp>>
vars      == <<text, pidx, results, outcomes, game, score, norm,
               db, work, writer, pc, req, loc, resp>>

----------------------------------------------------------------------------
(* Tokens *)

Tk(k, v) == [k |-> k, v |-> v]

TRAVLE   == Tk("travle", 0)    \* "#travle"
CONN     == Tk("conn", 0)      \* "Connections Puzzle"
WORDLE   == Tk("wordle", 0)    \* "Wordle"
GTM      == Tk("gtm", 0)       \* "#GuessTheMovie"
GTG      == Tk("gtg", 0)       \* "#GuessTheGame"
IGOT     == Tk("igot", 0)      \* "I got"
ONFOOD   == Tk("onfood", 0)    \* "on the FoodGuessr"
TG       == Tk("tg", 0)        \* "TimeGuessr"
PERFECT  == Tk("perfect", 0)   \* "(Perfect)"
COMMA    == Tk("comma", 0)     \* ","
NL       == Tk("nl", 0)        \* "\n"
BL       == Tk("bl", 0)        \* "\n\n"
WORD     == Tk("word", 0)      \* a word no pattern knows, "hello"
BADDATE  == Tk("baddate", 0)   \* "Monday, Foo 18, 2026": matches the pattern, no such month
Idx(n)   == Tk("idx", n)       \* "#n"
Num(n)   == Tk("num", n)       \* "n", an unsigned run of digits
Plus(n)  == Tk("plus", n)      \* "+n"
Minus(n) == Tk("minus", n)     \* "-n"
Slot(d)  == Tk("slot", d)      \* "d/6" for a digit d in 0..9; "X/6" for 10; "x/6" for 11
Over(n)  == Tk("over", n)      \* "/n"
Sq(c)    == Tk("sq", c)        \* one coloured square
Date(d)  == Tk("date", d)      \* "Wednesday, Feb 18, 2026": a well-formed date, day d

SlotX      == 10
SlotLowerX == 11

PURPLE == 1
GREEN  == 2
YELLOW == 3
BLUE   == 4
RED    == 5
WHITE  == 6

EndTok == Tk("end", 0)
Tok(txt, i) == IF i \in 1..Len(txt) THEN txt[i] ELSE EndTok

\* \s
IsWs(t) == t.k \in {"nl", "bl"}
\* a token all of whose characters are in [\d\s,]
IsClass(t) == t.k \in {"num", "comma", "nl", "bl"}

Min(S) == CHOOSE x \in S : \A y \in S : x <= y

\* re.search: the leftmost position at which the pattern matches, 0 if none
FirstIdx(S) == IF S = {} THEN 0 ELSE Min(S)

\* \s+ after a token: the first token at or after i that is not white space
RECURSIVE SkipWs(_, _)
SkipWs(txt, i) ==
    IF i <= Len(txt) /\ IsWs(txt[i]) THEN SkipWs(txt, i + 1) ELSE i

\* the first token at or after i that is not made of [\d\s,] characters
RECURSIVE SkipClass(_, _)
SkipClass(txt, i) ==
    IF i <= Len(txt) /\ IsClass(txt[i]) THEN SkipClass(txt, i + 1) ELSE i

\* number of white-space characters of the tokens i..j, which are all NL or BL
RECURSIVE WsLen(_, _, _)
WsLen(txt, i, j) ==
    IF i > j THEN 0
    ELSE (IF txt[i].k = "bl" THEN 2 ELSE 1) + WsLen(txt, i + 1, j)

RECURSIVE Digits(_)
Digits(n) == IF n < 10 THEN 1 ELSE 1 + Digits(n \div 10)

RECURSIVE Pow10(_)
Pow10(d) == IF d = 0 THEN 1 ELSE 10 * Pow10(d - 1)

\* the empty digit string
NoDigits == -1

\* re.sub(r'[\s,]', '', s): the digit runs of the tokens i..j written one
\* after the other; NoDigits when there is no digit among them
RECURSIVE StripSeparators(_, _, _, _)
StripSeparators(txt, i, j, acc) ==
    IF i > j THEN acc
    ELSE IF txt[i].k # "num" THEN StripSeparators(txt, i + 1, j, acc)
    ELSE StripSeparators(txt, i + 1, j,
            IF acc = NoDigits THEN txt[i].v
            ELSE acc * Pow10(Digits(txt[i].v)) + txt[i].v)

HasNonWs(txt, i, j) == \E q \in i..j : ~IsWs(txt[q])

----------------------------------------------------------------------------
(* Parser outcomes *)

NoMatch == [st |-> "none", game |-> "", number |-> NoDigits, score |-> 0]
Fault   == [st |-> "fault", game |-> "", number |-> NoDigits, score |-> 0]
Match(g, n, s) == [st |-> "match", game |-> g, number |-> n, score |-> s]

----------------------------------------------------------------------------
(* parse_travle *)

\* r'#travle\s+#(\d+)\s+\+?\d*\s*\(Perfect\)' matches at token i
TravlePerfectAt(txt, i) ==
    LET j  == SkipWs(txt, i + 1)
        j2 == SkipWs(txt, j + 1)
        j3 == SkipWs(txt, j2 + 1)
    IN  /\ txt[i].k = "travle"
        /\ Tok(txt, j).k = "idx"
        /\ \/ Tok(txt, j2).k = "perfect"
           \/ Tok(txt, j2).k \in {"num", "plus"} /\ Tok(txt, j3).k = "perfect"

\* a token that starts with [+-]?\d+
HasLeadInt(t) ==
    \/ t.k \in {"num", "plus", "minus"}
    \/ t.k = "slot" /\ t.v < SlotX

\* int() of that leading [+-]?\d+
LeadInt(t) == IF t.k = "minus" THEN 0 - t.v ELSE t.v

\* r'#travle\s+#(\d+)\s+([+-]?\d+)' matches at token i
TravleNumericAt(txt, i) ==
    LET j  == SkipWs(txt, i + 1)
        j2 == SkipWs(txt, j + 1)
    IN  /\ txt[i].k = "travle"
        /\ Tok(txt, j).k = "idx"
        /\ HasLeadInt(Tok(txt, j2))

parse_travle(txt) ==
    LET ip == FirstIdx({i \in 1..Len(txt) : TravlePerfectAt(txt, i)})
        im == FirstIdx({i \in 1..Len(txt) : TravleNumericAt(txt, i)})
    IN  IF ip # 0
        THEN Match("Travle", txt[SkipWs(txt, ip + 1)].v, -1)
        ELSE IF im = 0 THEN NoMatch
        ELSE LET j == SkipWs(txt, im + 1)
             IN  Match("Travle", txt[j].v, LeadInt(txt[SkipWs(txt, j + 1)]))

----------------------------------------------------------------------------
(* parse_connections *)

\* r'Connections\s+Puzzle\s+#(\d+)' matches at token i
ConnectionsAt(txt, i) ==
    /\ txt[i].k = "conn"
    /\ Tok(txt, SkipWs(txt, i + 1)).k = "idx"

\* r'\n\s*\n' matches starting at token i: a blank line starts here
BlankLineAt(txt, i) ==
    \/ txt[i].k = "bl"
    \/ txt[i].k = "nl" /\ IsWs(Tok(txt, i + 1))

\* text[m.end():] cut at the first blank line: tokens from..(cut - 1)
EmojiSectionEnd(txt, from) ==
    LET c == FirstIdx({i \in from..Len(txt) : BlankLineAt(txt, i)})
    IN  IF c = 0 THEN Len(txt) ELSE c - 1

ConnectionsPalette == {PURPLE, GREEN, YELLOW, BLUE}

IsConnectionsSquare(t) == t.k = "sq" /\ t.v \in ConnectionsPalette

\* rows = [colors[i:i+4] for i in range(0, len(colors), 4)]
NumRows(colors) == (Len(colors) + 3) \div 4
Row(colors, r) ==
    SubSeq(colors, 4 * r + 1, IF 4 * r + 4 <= Len(colors) THEN 4 * r + 4 ELSE Len(colors))

IsMistakeRowAnyLen(row) ==
    Cardinality({row[q].v : q \in 1..Len(row)}) # 1

\* len(row) == 4 and len(set(row)) != 1
IsMistakeRow(row) ==
    Len(row) = 4 /\ Cardinality({row[q].v : q \in 1..Len(row)}) # 1

CountMistakes(colors) ==
    Cardinality({r \in 0..(NumRows(colors) - 1) : IsMistakeRow(Row(colors, r))})

MaxConnectionsRows == 7
ConnectionsCap == 4

parse_connections(txt) ==
    LET i == FirstIdx({q \in 1..Len(txt) : ConnectionsAt(txt, q)})
    IN  IF i = 0 THEN NoMatch
        ELSE LET j       == SkipWs(txt, i + 1)
                 section == SubSeq(txt, j + 1, EmojiSectionEnd(txt, j + 1))
                 colors  == SelectSeq(section, IsConnectionsSquare)
             IN  IF colors = <<>> THEN NoMatch
                 ELSE Match("Connections", txt[j].v,
                            IF NumRows(colors) > MaxConnectionsRows
                            THEN ConnectionsCap
                            ELSE CountMistakes(colors))

----------------------------------------------------------------------------
(* parse_wordle *)

\* r'Wordle\s+([\d\s,]+?)\s+([X\d])/6' matches at token i.  The characters
\* between "Wordle" and the slot must be white space, one or more characters
\* of [\d\s,], white space: with a digit or comma token between them that is
\* so; with line breaks only, three white-space characters are needed.
WordleAt(txt, i) ==
    LET m == SkipClass(txt, i + 1)
    IN  /\ txt[i].k = "wordle"
        /\ Tok(txt, m).k = "slot"
        /\ \/ HasNonWs(txt, i + 1, m - 1)
           \/ WsLen(txt, i + 1, m - 1) >= 3

WordleFail == 7

parse_wordle(txt) ==
    LET i == FirstIdx({q \in 1..Len(txt) : WordleAt(txt, q)})
    IN  IF i = 0 THEN NoMatch
        ELSE LET m == SkipClass(txt, i + 1)
             IN  Match("Wordle", StripSeparators(txt, i + 1, m - 1, NoDigits),
                       IF txt[m].v \in {SlotX, SlotLowerX} THEN WordleFail ELSE txt[m].v)

----------------------------------------------------------------------------
(* parse_guess_the_movie, parse_guess_the_game *)

GuessTheMovieAt(txt, i) ==
    /\ txt[i].k = "gtm"
    /\ Tok(txt, SkipWs(txt, i + 1)).k = "idx"

GuessTheGameAt(txt, i) ==
    /\ txt[i].k = "gtg"
    /\ Tok(txt, SkipWs(txt, i + 1)).k = "idx"

MoviePalette == {RED, GREEN, WHITE}
GamePalette  == {RED, YELLOW, GREEN, WHITE}

IsMovieSquare(t) == t.k = "sq" /\ t.v \in MoviePalette
IsGameSquare(t)  == t.k = "sq" /\ t.v \in GamePalette

AllWrong == 7

\* squares.index(green) + 1 if green is in squares, else 7
FirstGreen(squares) ==
    LET S == {q \in 1..Len(squares) : squares[q].v = GREEN}
    IN  IF S # {} THEN Min(S) ELSE AllWrong

\* emoji_section = text[m.end():]
MovieSection(txt, from) == SubSeq(txt, from, Len(txt))
GameSection(txt, from)  == SubSeq(txt, from, Len(txt))

parse_guess_the_movie(txt) ==
    LET i == FirstIdx({q \in 1..Len(txt) : GuessTheMovieAt(txt, q)})
    IN  IF i = 0 THEN NoMatch
        ELSE LET j == SkipWs(txt, i + 1)
             IN  Match("GuessTheMovie", txt[j].v,
                       FirstGreen(SelectSeq(MovieSection(txt, j + 1), IsMovieSquare)))

parse_guess_the_game(txt) ==
    LET i == FirstIdx({q \in 1..Len(txt) : GuessTheGameAt(txt, q)})
    IN  IF i = 0 THEN NoMatch
        ELSE LET j == SkipWs(txt, i + 1)
             IN  Match("GuessTheGame", txt[j].v,
                       FirstGreen(SelectSeq(GameSection(txt, j + 1), IsGameSquare)))

----------------------------------------------------------------------------
(* parse_foodguessr *)

\* r'I got ([\d\s,]+?) on the FoodGuessr' matches at token i: the spaces
\* after "I got" and before "on" are literal, so the group can neither
\* start nor end at a line break token
FoodGuessrAt(txt, i) ==
    LET m == SkipClass(txt, i + 1)
    IN  /\ txt[i].k = "igot"
        /\ Tok(txt, m).k = "onfood"
        /\ m > i + 1
        /\ ~IsWs(txt[i + 1])
        /\ ~IsWs(txt[m - 1])

\* int('') raises ValueError
parse_foodguessr(txt) ==
    LET i == FirstIdx({q \in 1..Len(txt) : FoodGuessrAt(txt, q)})
    IN  IF i = 0 THEN NoMatch
        ELSE LET m == SkipClass(txt, i + 1)
                 d == StripSeparators(txt, i + 1, m - 1, NoDigits)
             IN  IF d = NoDigits THEN Fault
                 ELSE Match("FoodGuessr", NoDigits, d)

----------------------------------------------------------------------------
(* parse_timeguessr *)

\* r'TimeGuessr\s+#(\d+)\s+([\d\s,]+?)/([\d\s,]+)' matches at token i.
\* The "/" is that of an Over token, which needs a character of [\d\s,]
\* between the \s+ and itself, or that of a digit slot "d/6", whose digit
\* is the last character of the score group.
TimeGuessrAt(txt, i) ==
    LET j == SkipWs(txt, i + 1)
        m == SkipClass(txt, j + 1)
    IN  /\ txt[i].k = "tg"
        /\ Tok(txt, j).k = "idx"
        /\ \/ /\ Tok(txt, m).k = "over"
              /\ \/ HasNonWs(txt, j + 1, m - 1)
                 \/ WsLen(txt, j + 1, m - 1) >= 2
           \/ Tok(txt, m).k = "slot" /\ Tok(txt, m).v < SlotX

parse_timeguessr(txt) ==
    LET i == FirstIdx({q \in 1..Len(txt) : TimeGuessrAt(txt, q)})
    IN  IF i = 0 THEN NoMatch
        ELSE LET j == SkipWs(txt, i + 1)
                 m == SkipClass(txt, j + 1)
                 g == StripSeparators(txt, j + 1, m - 1, NoDigits)
                 d == IF txt[m].k = "over" THEN g
                      ELSE IF g = NoDigits THEN txt[m].v
                      ELSE g * 10 + txt[m].v
             IN  IF d = NoDigits THEN Fault
                 ELSE Match("TimeGuessr", txt[j].v, d)

----------------------------------------------------------------------------
(* parse_date_from_text *)

NoDate == 0

\* the first weekday pattern match; strptime raising ValueError gives None
parse_date_from_text(txt) ==
    LET i == FirstIdx({q \in 1..Len(txt) : txt[q].k \in {"date", "baddate"}})
    IN  IF i = 0 THEN NoDate
        ELSE IF txt[i].k = "baddate" THEN NoDate
        ELSE txt[i].v

----------------------------------------------------------------------------
(* PARSERS and the dispatcher loop of api_parse *)

NumParsers == 7

RunParser(n, txt) ==
    CASE n = 1 -> parse_travle(txt)
      [] n = 2 -> parse_connections(txt)
      [] n = 3 -> parse_wordle(txt)
      [] n = 4 -> parse_guess_the_movie(txt)
      [] n = 5 -> parse_guess_the_game(txt)
      [] n = 6 -> parse_foodguessr(txt)
      [] n = 7 -> parse_timeguessr(txt)

DispatchOneAbort(n, txt, res) ==
    LET r == RunParser(n, txt)
    IN  IF r.st = "match" THEN Append(res, r)
        ELSE IF r.st = "fault" THEN <<>>
        ELSE res

\* one turn of "for parser in PARSERS": try the parser, append a result
\* that is not None, pass on an exception
DispatchOne(n, txt, res) ==
    LET r == RunParser(n, txt)
    IN  IF r.st = "match" THEN Append(res, r) ELSE res

\* the loop from parser n on
RECURSIVE DispatchFrom(_, _, _)
DispatchFrom(n, txt, res) ==
    IF n > NumParsers THEN res
    ELSE DispatchFrom(n + 1, txt, DispatchOne(n, txt, res))

----------------------------------------------------------------------------
(* SCORE_RANGES and normalize_score *)

Games == {"Travle", "Connections", "Wordle", "GuessTheMovie", "GuessTheGame",
          "FoodGuessr", "TimeGuessr"}

TravleMin == -1
TravleMax == 20
ConnectionsMin == 0
ConnectionsMax == 4
GuessMin == 1
GuessMax == 7
PointsMin == 0
FoodGuessrMax == 15000
TimeGuessrMax == 50000

Range(mn, mx, lb) == [min |-> mn, max |-> mx, lower_better |-> lb]

SCORE_RANGES ==
    [g \in Games |->
        CASE g = "Travle"        -> Range(TravleMin, TravleMax, TRUE)
          [] g = "Connections"   -> Range(ConnectionsMin, ConnectionsMax, TRUE)
          [] g = "Wordle"        -> Range(GuessMin, GuessMax, TRUE)
          [] g = "GuessTheMovie" -> Range(GuessMin, GuessMax, TRUE)
          [] g = "GuessTheGame"  -> Range(GuessMin, GuessMax, TRUE)
          [] g = "FoodGuessr"    -> Range(PointsMin, FoodGuessrMax, FALSE)
          [] g = "TimeGuessr"    -> Range(PointsMin, TimeGuessrMax, FALSE)]

\* a Python number num/den, den > 0 (true division is not rounded here)
Frac(n, d) == [num |-> n, den |-> d]

Midpoint == 50
Best == 100

NoClamp(mn, mx, s) == s

\* max(mn, min(mx, score))
Clamp(mn, mx, s) ==
    LET inner == IF mx < s THEN mx ELSE s
    IN  IF mn > inner THEN mn ELSE inner

normalize_score(g, s) ==
    IF g \notin DOMAIN SCORE_RANGES THEN Frac(Midpoint, 1)
    ELSE LET r       == SCORE_RANGES[g]
             mn      == r.min
             mx      == r.max
             clamped == Clamp(mn, mx, s)
         IN  IF r.lower_better
             THEN (IF mx # mn THEN Frac(Best * (mx - clamped), mx - mn) ELSE Frac(Best, 1))
             ELSE (IF mx # mn THEN Frac(Best * (clamped - mn), mx - mn) ELSE Frac(Best, 1))

----------------------------------------------------------------------------
(* The three machines.  Each specification runs one of them and leaves the *)
(* variables of the other two at rest.                                     *)

NotYet == Frac(0, 0)

ParseIdle == text = <<>> /\ pidx = 1 /\ results = <<>> /\ outcomes = <<>>
NormIdle  == game = "" /\ score = 0 /\ norm = NotYet

\* the dispatcher loop of api_parse, one parser per step
ParserStep ==
    /\ pidx <= NumParsers
    /\ results'  = DispatchOne(pidx, text, results)
    /\ outcomes' = Append(outcomes, RunParser(pidx, text).st)
    /\ pidx'     = pidx + 1
    /\ UNCHANGED text
    /\ UNCHANGED <<normVars, storeVars>>

Normalize ==
    /\ norm = NotYet
    /\ game # ""
    /\ norm' = normalize_score(game, score)
    /\ UNCHANGED <<game, score>>
    /\ UNCHANGED <<parseVars, storeVars>>

----------------------------------------------------------------------------
(* The scores table and the request handlers *)

NumThreads == 2

Threads == 1..NumThreads

\* datetime.now().strftime("%Y-%m-%d"); the dates written in the texts are
\* earlier days
Today == 2

\* request.json["username"] as sent
UsernameInputs == {"", "Al", "al "}

\* str.strip()
Strip(u) == IF u = "al " THEN "al" ELSE u
\* str.lower()
Lower(u) == IF u = "Al" THEN "al" ELSE u
KeepCase(u) == u

\* the username column as api_parse and api_delete write it: username.lower()
StoredName(u) == Lower(u)

WordleShare(d)    == <<WORDLE, Num(9), Slot(d)>>
ConnectionsShare  == <<CONN, Idx(5), NL, Sq(PURPLE), Sq(GREEN), Sq(YELLOW), Sq(BLUE),
                       NL, Sq(PURPLE), Sq(PURPLE), Sq(PURPLE), Sq(PURPLE)>>

\* request.json["text"] as sent
TextInputs ==
    { <<>>,
      <<WORD>>,
      WordleShare(4),
      <<BADDATE, NL>> \o WordleShare(SlotX) \o <<BL>> \o ConnectionsShare,
      <<Date(1), BL>> \o ConnectionsShare }

ScoreRow(u, g, n, s, d) ==
    [username |-> u, game |-> g, number |-> n, score |-> s, play_date |-> d]

\* UNIQUE(username, game, play_date)
SameKey(r1, r2) ==
    /\ r1.username = r2.username
    /\ r1.game = r2.game
    /\ r1.play_date = r2.play_date

\* INSERT INTO scores: the row is added, or sqlite3.IntegrityError is raised
\* and the table is left as it was
InsertOrReplace(rows, row) ==
    [ok |-> TRUE, rows |-> {r \in rows : ~SameKey(r, row)} \cup {row}]

InsertRow(rows, row) ==
    IF \E r \in rows : SameKey(r, row)
    THEN [ok |-> FALSE, rows |-> rows]
    ELSE [ok |-> TRUE, rows |-> rows \cup {row}]

\* DELETE FROM scores WHERE username = ? AND game = ? AND play_date = ?
DeleteRows(rows, u, g, d) ==
    {r \in rows : ~(r.username = u /\ r.game = g /\ r.play_date = d)}

NoReq  == [kind |-> "", username |-> "", text |-> <<>>]
NoLoc  == [username |-> "", game |-> "", play_date |-> 0, results |-> <<>>, pos |-> 0,
           saved |-> <<>>, errors |-> <<>>]
NoResp == [status |-> 0, error |-> "", saved |-> <<>>, errors |-> <<>>, date |-> 0]

ErrorResp(code, msg) == [NoResp EXCEPT !.status = code, !.error = msg]

StoreIdle ==
    /\ db = {} /\ work = {} /\ writer = 0
    /\ pc = [t \in Threads |-> "idle"]
    /\ req = [t \in Threads |-> NoReq]
    /\ loc = [t \in Threads |-> NoLoc]
    /\ resp = [t \in Threads |-> NoResp]

ParseErrorUnchecked(username, txt, res) ==
    IF username = "" THEN "Username required"
    ELSE IF txt = <<>> THEN "No text provided"
    ELSE ""

\* the early returns of api_parse: the error of the 400 response, "" if none
ParseError(username, txt, res) ==
    IF username = "" THEN "Username required"
    ELSE IF txt = <<>> THEN "No text provided"
    ELSE IF res = <<>> THEN "Could not parse any game scores from the text"
    ELSE ""

\* api_parse up to get_db(): validation, date extraction, the parsers
ParseReceive(t, u, txt) ==
    LET username == Strip(u)
        d        == parse_date_from_text(txt)
        res      == DispatchFrom(1, txt, <<>>)
        err      == ParseError(username, txt, res)
    IN  /\ pc[t] = "idle"
        /\ req' = [req EXCEPT ![t] = [NoReq EXCEPT !.kind = "parse", !.username = u,
                                                   !.text = txt]]
        /\ IF err # ""
           THEN /\ pc' = [pc EXCEPT ![t] = "done"]
                /\ resp' = [resp EXCEPT ![t] = ErrorResp(400, err)]
                /\ UNCHANGED loc
           ELSE /\ pc' = [pc EXCEPT ![t] = IF res = <<>> THEN "commit" ELSE "insert"]
                /\ loc' = [loc EXCEPT ![t] =
                             [username |-> username, game |-> "",
                              play_date |-> IF d # NoDate THEN d ELSE Today,
                              results |-> res, pos |-> 1,
                              saved |-> <<>>, errors |-> <<>>]]
                /\ UNCHANGED resp
        /\ UNCHANGED <<db, work, writer>>
        /\ UNCHANGED <<parseVars, normVars>>

\* one turn of "for r in results": the INSERT takes the database write lock
\* if the connection does not hold it yet, and keeps it until commit
Insert(t) ==
    LET l    == loc[t]
        r    == l.results[l.pos]
        base == IF writer = t THEN work ELSE db
        ins  == InsertRow(base, ScoreRow(StoredName(l.username), r.game, r.number,
                                    r.score, l.play_date))
        item == [game |-> r.game, number |-> r.number, score |-> r.score,
                 date |-> l.play_date]
    IN  /\ pc[t] = "insert"
        /\ writer \in {0, t}
        /\ writer' = t
        /\ work' = ins.rows
        /\ loc' = [loc EXCEPT ![t] =
                     [l EXCEPT !.pos = l.pos + 1,
                               !.saved = IF ins.ok THEN Append(l.saved, item) ELSE l.saved,
                               !.errors = IF ins.ok THEN l.errors
                                          ELSE Append(l.errors, [game |-> r.game,
                                                                 date |-> l.play_date])]]
        /\ pc' = [pc EXCEPT ![t] = IF l.pos = Len(l.results) THEN "commit" ELSE "insert"]
        /\ UNCHANGED <<db, req, resp>>
        /\ UNCHANGED <<parseVars, normVars>>

\* conn.commit(); conn.close(); return jsonify(...): the transaction's rows
\* become the table and the write lock is released; with no transaction
\* open, commit does nothing
Commit(t) ==
    /\ pc[t] = "commit"
    /\ db' = IF writer = t THEN work ELSE db
    /\ work' = IF writer = t THEN {} ELSE work
    /\ writer' = IF writer = t THEN 0 ELSE writer
    /\ pc' = [pc EXCEPT ![t] = "done"]
    /\ resp' = [resp EXCEPT ![t] =
                  [status |-> 200, error |-> "", saved |-> loc[t].saved,
                   errors |-> loc[t].errors,
                   date |-> IF req[t].kind = "parse" THEN loc[t].play_date ELSE 0]]
    /\ req' = [req EXCEPT ![t] = NoReq]
    /\ loc' = [loc EXCEPT ![t] = NoLoc]
    /\ UNCHANGED <<parseVars, normVars>>

\* the write lock is still held by another connection when sqlite3.connect's
\* default timeout runs out: sqlite3.OperationalError, which no handler
\* catches; the request ends as a 500 and has written nothing
LockTimeout(t) ==
    /\ pc[t] \in {"insert", "delete"}
    /\ writer \notin {0, t}
    /\ pc' = [pc EXCEPT ![t] = "done"]
    /\ resp' = [resp EXCEPT ![t] = ErrorResp(500, "database is locked")]
    /\ req' = [req EXCEPT ![t] = NoReq]
    /\ loc' = [loc EXCEPT ![t] = NoLoc]
    /\ UNCHANGED <<db, work, writer>>
    /\ UNCHANGED <<parseVars, normVars>>

\* api_delete up to get_db()
DeleteReceive(t, u, g, d) ==
    LET username == Lower(Strip(u))
    IN  /\ pc[t] = "idle"
        /\ IF username = "" \/ g = "" \/ d = 0
           THEN /\ pc' = [pc EXCEPT ![t] = "done"]
                /\ resp' = [resp EXCEPT ![t] = ErrorResp(400, "Missing fields")]
                /\ UNCHANGED loc
           ELSE /\ pc' = [pc EXCEPT ![t] = "delete"]
                /\ loc' = [loc EXCEPT ![t] = [NoLoc EXCEPT !.username = username,
                                                           !.game = g,
                                                           !.play_date = d]]
                /\ UNCHANGED resp
        /\ UNCHANGED <<db, work, writer, req>>
        /\ UNCHANGED <<parseVars, normVars>>

\* conn.execute("DELETE ..."): takes the write lock
DeleteExec(t) ==
    /\ pc[t] = "delete"
    /\ writer = 0
    /\ writer' = t
    /\ work' = DeleteRows(db, loc[t].username, loc[t].game, loc[t].play_date)
    /\ pc' = [pc EXCEPT ![t] = "commit"]
    /\ UNCHANGED <<db, req, loc, resp>>
    /\ UNCHANGED <<parseVars, normVars>>

\* the response has been sent; the thread takes the next request
Return(t) ==
    /\ pc[t] = "done"
    /\ pc' = [pc EXCEPT ![t] = "idle"]
    /\ req' = [req EXCEPT ![t] = NoReq]
    /\ loc' = [loc EXCEPT ![t] = NoLoc]
    /\ resp' = [resp EXCEPT ![t] = NoResp]
    /\ UNCHANGED <<db, work, writer>>
    /\ UNCHANGED <<parseVars, normVars>>

DeleteGames == {"", "Wordle"}

StoreNext ==
    \/ \E t \in Threads, u \in UsernameInputs, txt \in TextInputs : ParseReceive(t, u, txt)
    \/ \E t \in Threads : Insert(t)
    \/ \E t \in Threads : Commit(t)
    \/ \E t \in Threads : LockTimeout(t)
    \/ \E t \in Threads, u \in UsernameInputs, g \in DeleteGames, d \in {0, Today} :
          DeleteReceive(t, u, g, d)
    \/ \E t \in Threads : DeleteExec(t)
    \/ \E t \in Threads : Return(t)

\* the table after init_db(), every thread waiting for a request
StoreStart ==
    /\ db = {}
    /\ StoreIdle
    /\ ParseIdle /\ NormIdle

SpecStore == StoreStart /\ [][StoreNext]_vars

----------------------------------------------------------------------------
(* Input texts of the parse machine *)

\* every text of at most n tokens over the alphabet A
TextsUpTo(A, n) == UNION {[1..q -> A] : q \in 0..n}

ParseStart(T) ==
    /\ text \in T
    /\ pidx = 1 /\ results = <<>> /\ outcomes = <<>>
    /\ NormIdle /\ StoreIdle

ParseNext == ParserStep

\* the dispatcher has run every parser
ParseDone == pidx > NumParsers

(* Travle texts *)
MaxTravleLen == 4
TravleAlphabet ==
    {TRAVLE, Idx(1), Idx(2), Num(3), Plus(0), Minus(1), Minus(2), PERFECT, NL, WORD}
SpecTravle == ParseStart(TextsUpTo(TravleAlphabet, MaxTravleLen)) /\ [][ParseNext]_vars

(* Wordle texts *)
MaxWordleLen == 3
WordleAlphabet ==
    {WORDLE, Num(1), Num(705), COMMA, NL, BL, WORD} \cup {Slot(d) : d \in 0..SlotLowerX}
SpecWordle == ParseStart(TextsUpTo(WordleAlphabet, MaxWordleLen)) /\ [][ParseNext]_vars

(* Connections texts: the header, then rows of squares, one row per line, *)
(* with or without a blank line among them                                *)
MaxConnRows == 8
MaxCutRows == 2
ConnRowKinds == 1..3
ConnRow(kind) ==
    CASE kind = 1 -> <<Sq(PURPLE), Sq(PURPLE), Sq(PURPLE), Sq(PURPLE), NL>>
      [] kind = 2 -> <<Sq(PURPLE), Sq(GREEN), Sq(YELLOW), Sq(BLUE), NL>>
      [] kind = 3 -> <<Sq(RED), Sq(GREEN), Sq(GREEN), NL>>

RECURSIVE ConnBody(_)
ConnBody(kinds) ==
    IF kinds = <<>> THEN <<>> ELSE ConnRow(Head(kinds)) \o ConnBody(Tail(kinds))

ConnHeader == <<CONN, Idx(50), NL>>

ConnTexts ==
    {ConnHeader \o ConnBody(ks) : ks \in TextsUpTo(ConnRowKinds, MaxConnRows)}
    \cup {ConnHeader \o ConnBody(k1) \o <<BL>> \o ConnBody(k2) :
            k1 \in TextsUpTo(ConnRowKinds, MaxCutRows),
            k2 \in TextsUpTo(ConnRowKinds, MaxCutRows)}

SpecConnections == ParseStart(ConnTexts) /\ [][ParseNext]_vars

(* Valid shares, per game *)
RegistrationOrder ==
    <<"Travle", "Connections", "Wordle", "GuessTheMovie", "GuessTheGame",
      "FoodGuessr", "TimeGuessr">>

ParserIndex(g) == CHOOSE n \in 1..NumParsers : RegistrationOrder[n] = g

Shares ==
    [g \in Games |->
        CASE g = "Travle" ->
                { <<TRAVLE, Idx(1), Plus(2)>>,
                  <<TRAVLE, Idx(1), Plus(0), PERFECT>> }
          [] g = "Connections" ->
                { <<CONN, Idx(5), NL, Sq(PURPLE), Sq(GREEN), Sq(YELLOW), Sq(BLUE),
                    NL, Sq(PURPLE), Sq(PURPLE), Sq(PURPLE), Sq(PURPLE)>>,
                  <<CONN, Idx(5), NL, Sq(BLUE), Sq(BLUE), Sq(BLUE), Sq(BLUE)>> }
          [] g = "Wordle" ->
                { <<WORDLE, Num(1), COMMA, Num(705), Slot(2), NL,
                    Sq(WHITE), Sq(YELLOW), Sq(WHITE), Sq(WHITE), Sq(GREEN), NL,
                    Sq(GREEN), Sq(GREEN), Sq(GREEN), Sq(GREEN), Sq(GREEN)>>,
                  <<WORDLE, Num(900), Slot(SlotX)>> }
          [] g = "GuessTheMovie" ->
                { <<GTM, Idx(7), NL, Sq(RED), Sq(RED), Sq(GREEN), Sq(WHITE), Sq(WHITE), Sq(WHITE)>>,
                  <<GTM, Idx(7), NL, Sq(RED), Sq(RED), Sq(RED), Sq(RED), Sq(RED), Sq(RED)>> }
          [] g = "GuessTheGame" ->
                { <<GTG, Idx(8), NL, Sq(RED), Sq(YELLOW), Sq(GREEN), Sq(WHITE), Sq(WHITE), Sq(WHITE)>>,
                  <<GTG, Idx(8), NL, Sq(RED), Sq(YELLOW), Sq(RED), Sq(RED), Sq(YELLOW), Sq(RED)>> }
          [] g = "FoodGuessr" ->
                { <<IGOT, Num(4), Num(430), ONFOOD, WORD>>,
                  <<IGOT, Num(11), COMMA, Num(500), ONFOOD, WORD>> }
          [] g = "TimeGuessr" ->
                { <<TG, Idx(3), Num(44), COMMA, Num(237), Over(50000)>>,
                  <<TG, Idx(3), Num(9), Over(50000), NL, Sq(GREEN), Sq(GREEN), Sq(YELLOW)>> }]

(* Two shares of distinct games, a blank line between them *)
PairTexts ==
    {a \o <<BL>> \o b : a \in UNION {Shares[g] : g \in Games},
                        b \in UNION {Shares[g] : g \in Games}}
    \ UNION {{a \o <<BL>> \o b : a \in Shares[g], b \in Shares[g]} : g \in Games}

SpecPair == ParseStart(PairTexts) /\ [][ParseNext]_vars

(* A game's header with no score payload after it *)
MaxTailLen == 2
HeaderOnly ==
    [g \in Games |->
        CASE g = "Travle"        -> {<<TRAVLE, Idx(1)>>}
          [] g = "Connections"   -> {<<CONN, Idx(1)>>}
          [] g = "Wordle"        -> {<<WORDLE, Num(9)>>}
          [] g = "GuessTheMovie" -> {<<GTM, Idx(1)>>}
          [] g = "GuessTheGame"  -> {<<GTG, Idx(1)>>}
          [] g = "FoodGuessr"    -> {<<IGOT, ONFOOD>>, <<IGOT, COMMA, ONFOOD>>}
          [] g = "TimeGuessr"    -> {<<TG, Idx(1)>>}]

\* what may follow the header: words, line breaks, and a square that is
\* not of the game's palette
TailAlphabet ==
    [g \in Games |->
        {WORD, NL} \cup
        (CASE g = "Connections" -> {Sq(RED)}
           [] g \in {"GuessTheMovie", "GuessTheGame"} -> {Sq(PURPLE)}
           [] OTHER -> {Sq(GREEN)})]

HeaderTexts ==
    UNION {{h \o t : h \in HeaderOnly[g], t \in TextsUpTo(TailAlphabet[g], MaxTailLen)} :
           g \in Games}

SpecHeader == ParseStart(HeaderTexts) /\ [][ParseNext]_vars

(* Several blocks pasted together: shares, blocks on which a parser raises, *)
(* and text no parser knows                                                 *)
MaxBlocks == 3
Blocks ==
    { <<TRAVLE, Idx(1), Plus(2)>>,
      <<CONN, Idx(5), NL, Sq(PURPLE), Sq(GREEN), Sq(YELLOW), Sq(BLUE)>>,
      <<WORDLE, Num(900), Slot(4)>>,
      <<GTM, Idx(7), NL, Sq(RED), Sq(GREEN)>>,
      <<GTG, Idx(8), NL, Sq(YELLOW), Sq(GREEN)>>,
      <<IGOT, Num(4), Num(430), ONFOOD>>,
      <<TG, Idx(3), Num(9), Over(50000)>>,
      <<IGOT, COMMA, ONFOOD>>,
      <<TG, Idx(3), COMMA, Over(50000)>>,
      <<WORD>> }

RECURSIVE JoinBlocks(_)
JoinBlocks(bs) ==
    IF bs = <<>> THEN <<>>
    ELSE IF Len(bs) = 1 THEN bs[1]
    ELSE bs[1] \o <<BL>> \o JoinBlocks(Tail(bs))

DispatchTexts == {JoinBlocks(bs) : bs \in TextsUpTo(Blocks, MaxBlocks)}

SpecDispatch == ParseStart(DispatchTexts) /\ [][ParseNext]_vars

(* Normalizer inputs: every game, and raw scores around both ends of every *)
(* game's range                                                            *)
MaxOver == 3
ScoreInputs ==
    UNION {(SCORE_RANGES[g].min - MaxOver)..(SCORE_RANGES[g].min + MaxOver) : g \in Games}
    \cup UNION {(SCORE_RANGES[g].max - MaxOver)..(SCORE_RANGES[g].max + MaxOver) : g \in Games}

NormStart ==
    /\ game \in Games \cup {"Unknown"}
    /\ score \in ScoreInputs
    /\ norm = NotYet
    /\ ParseIdle /\ StoreIdle

SpecNorm == NormStart /\ [][Normalize]_vars

----------------------------------------------------------------------------
(* Properties *)

ResultSet == {results[k] : k \in 1..Len(results)}

\* the dispatcher's result for game g, NoMatch if it has none
ResultOf(g) ==
    IF \E r \in ResultSet : r.game = g
    THEN CHOOSE r \in ResultSet : r.game = g
    ELSE NoMatch

\* the first n tokens of a sequence removed
Drop(sq, n) == SubSeq(sq, n + 1, Len(sq))

(* C3: for two distinct games, a text made of a valid share of the first, a *)
(* blank line and a valid share of the second parses to exactly two         *)
(* results, and each is what that game's parser yields on its own share     *)
(* alone.                                                                   *)
C3_NoFieldBleed ==
    ParseDone =>
        \A g1 \in Games, g2 \in Games :
            \A a \in Shares[g1], b \in Shares[g2] :
                (g1 # g2 /\ text = a \o <<BL>> \o b) =>
                    /\ Len(results) = 2
                    /\ ResultSet = {RunParser(ParserIndex(g1), a),
                                    RunParser(ParserIndex(g2), b)}

(* C4: the dispatcher calls every registered parser on the same text in    *)
(* registration order; its result list is exactly the matches, in that     *)
(* order; a parser that raises contributes nothing and the parsers after   *)
(* it still run and contribute.                                            *)
C4_DispatchOrder ==
    LET called == pidx - 1
        all    == [n \in 1..called |-> RunParser(n, text)]
        IsMatch(r) == r.st = "match"
    IN  /\ Len(outcomes) = called
        /\ \A n \in 1..called : outcomes[n] = all[n].st
        /\ results = SelectSeq(all, IsMatch)
        /\ \A k \in 1..Len(results) :
              /\ results[k].game \in Games
              /\ all[ParserIndex(results[k].game)] = results[k]
        /\ \A k1 \in 1..Len(results), k2 \in 1..Len(results) :
              k1 < k2 => ParserIndex(results[k1].game) < ParserIndex(results[k2].game)

\* FoodGuessr's parser raised; a parser before it and the one after it matched
C4_Witness ==
    /\ ParseDone
    /\ outcomes[ParserIndex("FoodGuessr")] = "fault"
    /\ outcomes[ParserIndex("TimeGuessr")] = "match"
    /\ Len(results) = 2
    /\ results[1].game = "Wordle"
    /\ results[2].game = "TimeGuessr"

(* C7: every Wordle result has a score in 1..7: the digit n, with n in     *)
(* 1..6, when the slot before "/6" is a digit, and 7 when it is X or x.    *)
C7_WordleScoreRange ==
    \A r \in ResultSet :
        r.game = "Wordle" =>
            /\ r.score \in 1..7
            /\ \A i \in 1..Len(text) :
                  (WordleAt(text, i) /\ \A q \in 1..(i - 1) : ~WordleAt(text, q)) =>
                      LET slot == text[SkipClass(text, i + 1)].v
                      IN  IF slot \in {SlotX, SlotLowerX}
                          THEN r.score = 7
                          ELSE slot \in 1..6 /\ r.score = slot

IsSignedInt(t) == t.k \in {"num", "plus", "minus"}

PerfectShapeAt(i) ==
    /\ Tok(text, i).k = "travle"
    /\ Tok(text, i + 1).k = "idx"
    /\ \/ Tok(text, i + 2).k = "perfect"
       \/ IsSignedInt(Tok(text, i + 2)) /\ Tok(text, i + 3).k = "perfect"

NumericShapeAt(i) ==
    /\ Tok(text, i).k = "travle"
    /\ Tok(text, i + 1).k = "idx"
    /\ IsSignedInt(Tok(text, i + 2))

(* C8: whenever the Travle header and puzzle index are followed by the     *)
(* "(Perfect)" marker, with or without a numeric token between the index   *)
(* and the marker, the Travle result has score -1 and that puzzle index,   *)
(* whatever the numeric token is; with no marker, the score is the signed  *)
(* integer token after the index.                                          *)
C8_TravlePerfectWins ==
    pidx > ParserIndex("Travle") =>
        LET P == {i \in 1..Len(text) : PerfectShapeAt(i)}
            N == {i \in 1..Len(text) : NumericShapeAt(i)}
        IN  IF P # {}
            THEN ResultOf("Travle") = Match("Travle", text[Min(P) + 1].v, -1)
            ELSE N # {} =>
                    ResultOf("Travle") =
                        Match("Travle", text[Min(N) + 1].v,
                              IF text[Min(N) + 2].k = "minus"
                              THEN 0 - text[Min(N) + 2].v ELSE text[Min(N) + 2].v)

RECURSIVE BlockColours(_, _)
BlockColours(txt, i) ==
    IF i > Len(txt) THEN <<>>
    ELSE IF txt[i].k = "bl" THEN <<>>
    ELSE IF txt[i].k = "nl" /\ Tok(txt, i + 1).k \in {"nl", "bl"} THEN <<>>
    ELSE IF txt[i].k = "sq" /\ txt[i].v \in {PURPLE, GREEN, YELLOW, BLUE}
         THEN <<txt[i].v>> \o BlockColours(txt, i + 1)
    ELSE BlockColours(txt, i + 1)

RECURSIVE ChunkCount(_)
ChunkCount(c) == IF c = <<>> THEN 0 ELSE 1 + ChunkCount(Drop(c, 4))

RECURSIVE ChunkMistakes(_)
ChunkMistakes(c) ==
    IF Len(c) < 4 THEN 0
    ELSE (IF c[1] = c[2] /\ c[2] = c[3] /\ c[3] = c[4] THEN 0 ELSE 1)
         + ChunkMistakes(Drop(c, 4))

C10_HeaderOnlyNoMatch ==
    \A g \in Games :
        \A h \in HeaderOnly[g], t \in TextsUpTo(TailAlphabet[g], MaxTailLen) :
            (text = h \o t /\ pidx > ParserIndex(g)) =>
                outcomes[ParserIndex(g)] = "none"

(* C6: for every supported game and raw score s, normalize_score(game, s)  *)
(* lies in [0, 100] and equals normalize_score(game, clamp(s, min, max));  *)
(* at min it is 100 and at max 0 when lower is better, and 0 at min and    *)
(* 100 at max when higher is better.                                       *)
C6_NormalizeClamped ==
    (norm # NotYet /\ game \in Games) =>
        LET r == SCORE_RANGES[game]
            c == IF score < r.min THEN r.min ELSE IF score > r.max THEN r.max ELSE score
            e == normalize_score(game, c)
        IN  /\ norm.den > 0
            /\ 0 <= norm.num
            /\ norm.num <= 100 * norm.den
            /\ norm = e
            /\ score = r.min => norm.num = (IF r.lower_better THEN 100 ELSE 0) * norm.den
            /\ score = r.max => norm.num = (IF r.lower_better THEN 0 ELSE 100) * norm.den

\* normalize(Wordle, 10) is 0, as normalize(Wordle, 7)
C6_Witness ==
    /\ game = "Wordle"
    /\ score = 10
    /\ norm = Frac(0, 6)
    /\ normalize_score("Wordle", 7) = Frac(0, 6)

UniquePerKey(rows) ==
    \A r1 \in rows, r2 \in rows :
        (Lower(r1.username) = Lower(r2.username) /\ r1.game = r2.game
            /\ r1.play_date = r2.play_date) => r1 = r2

(* C1: in every reachable state of the store, under any interleaving of    *)
(* submissions and deletions by concurrent threads, there is at most one   *)
(* row per (lower-cased username, game, play_date).                        *)
C1_OneRowPerKey == UniquePerKey(db) /\ UniquePerKey(work)

\* "al" has had every game of its submission rejected as a duplicate and
\* holds the write lock, while "Al" waits to insert the same text
C1_Witness ==
    \E t1 \in Threads, t2 \in Threads :
        /\ t1 # t2
        /\ pc[t1] = "commit" /\ req[t1].kind = "parse" /\ writer = t1
        /\ loc[t1].username = "al"
        /\ Len(loc[t1].errors) = Len(loc[t1].results)
        /\ pc[t2] = "insert"
        /\ loc[t2].username = "Al"
        /\ req[t2].text = req[t1].text
        /\ loc[t2].play_date = loc[t1].play_date

NothingRecognized == "Could not parse any game scores from the text"

(* C5, as stated: a submission whose text is empty or recognized by no     *)
(* parser is answered with the one "nothing recognized" condition, the     *)
(* same in both cases.                                                     *)
C5_SingleCondition ==
    \A t \in Threads :
        (/\ pc[t] = "done"
         /\ req[t].kind = "parse"
         /\ Strip(req[t].username) # ""
         /\ DispatchFrom(1, req[t].text, <<>>) = <<>>) =>
            resp[t] = ErrorResp(400, NothingRecognized)

(* C5, amended: a submission with a username whose text is not empty and   *)
(* is recognized by no parser is answered with the "nothing recognized"    *)
(* condition; an empty text is answered with "No text provided" before any *)
(* parser runs; both are 400 responses and neither stores a row.           *)
C5_RejectedUnstored ==
    [][\A t \in Threads :
          (/\ pc[t] = "idle"
           /\ req'[t].kind = "parse"
           /\ Strip(req'[t].username) # ""
           /\ DispatchFrom(1, req'[t].text, <<>>) = <<>>) =>
              /\ pc'[t] = "done"
              /\ resp'[t] = ErrorResp(400, IF req'[t].text = <<>>
                                           THEN "No text provided"
                                           ELSE NothingRecognized)
              /\ db' = db /\ work' = work /\ writer' = writer
      ]_vars

\* one thread has answered an empty text, another an unrecognized one,
\* and the table holds a row
C5_Witness ==
    \E t1 \in Threads, t2 \in Threads :
        /\ pc[t1] = "done" /\ req[t1].kind = "parse" /\ req[t1].username = "Al"
        /\ req[t1].text = <<>>
        /\ resp[t1] = ErrorResp(400, "No text provided")
        /\ pc[t2] = "done" /\ req[t2].kind = "parse" /\ req[t2].username = "al "
        /\ req[t2].text = <<WORD>>
        /\ resp[t2] = ErrorResp(400, NothingRecognized)
        /\ db # {}

====
